---- MODULE Spec2Model ----
(***************************************************************************)
(* Model of CustomModesManager (src/manage_custom_modes.py): the           *)
(* read-modify-write cycle over the single ItemTable row that holds the    *)
(* JSON document with composerState.modes4.                                *)
(*                                                                         *)
(* JSON objects (Python dicts) are functions from a finite set of string   *)
(* keys to values; the empty dict is the function with empty domain.       *)
(* JSON text is a sequence of <<key, value>> members (json.dumps writes    *)
(* the members one after the other, json.loads keeps the last member of a  *)
(* repeated key); nested values are carried as JSON values.                *)
(* An optional value (Python's None or a value) is a sequence of length 0  *)
(* or 1.                                                                   *)
(***************************************************************************)
EXTENDS Integers, Sequences, FiniteSets, TLC

\* ------------------------------------------------------------------ bounds
MaxModes == 2      \* longest mode list an import may build
MaxInitLen == 2    \* longest mode list of an initial document

\* --------------------------------------------------------------- constants
\* a built-in id forgotten in the list
BuiltinIds_NoAgent == {"plan", "background", "chat", "spec", "debug"}

BuiltinIds == {"agent", "plan", "background", "chat", "spec", "debug"}

\* a required field forgotten in the list
RequiredFields_NoTools ==
  <<"name", "icon", "thinkingLevel", "autoRun", "shouldAutoApplyIfNoEditTool",
    "autoFix", "enabledMcpServers">>

RequiredFields ==
  <<"name", "icon", "thinkingLevel", "autoRun", "shouldAutoApplyIfNoEditTool",
    "enabledTools", "autoFix", "enabledMcpServers">>

RequiredSet == {RequiredFields[i] : i \in 1..Len(RequiredFields)}

ModesField == "modes4"
StateField == "composerState"
\* stand-ins for the host application's unrelated fields
TopField == "otherTopLevel"
SiblingField == "otherNested"
OptionalField == "customRulesForAI"

\* --------------------------------------------------------- Python helpers
None == <<>>
Some(x) == <<x>>
EmptyDict == <<>>

DictGet(d, k, default) == IF k \in DOMAIN d THEN d[k] ELSE default

DictSet(d, k, v) == [x \in (DOMAIN d) \cup {k} |-> IF x = k THEN v ELSE d[x]]

\* m.get("id") == mode_id, for a string mode_id
IdIs(m, mode_id) == "id" \in DOMAIN m /\ m["id"] = mode_id

\* order in which the members of an object are written
KeyOrder ==
  <<"id">> \o RequiredFields \o
  <<OptionalField, TopField, StateField, SiblingField, ModesField>>

\* a serializer that skips the optional member
Dumps_NoOptional(d) ==
  LET present == SelectSeq(KeyOrder, LAMBDA k : k \in DOMAIN d /\ k /= OptionalField)
  IN  [i \in 1..Len(present) |-> <<present[i], d[present[i]]>>]

\* json.dumps / json.dump of an object
Dumps(d) ==
  LET present == SelectSeq(KeyOrder, LAMBDA k : k \in DOMAIN d)
  IN  [i \in 1..Len(present) |-> <<present[i], d[present[i]]>>]

\* json.loads / json.load of an object
Loads(t) ==
  [k \in {t[i][1] : i \in 1..Len(t)} |->
     t[CHOOSE i \in 1..Len(t) :
         t[i][1] = k /\ \A j \in (i+1)..Len(t) : t[j][1] /= k][2]]

\* ------------------------------------------------------------------ state
VARIABLES
  table,     \* the row of ItemTable under modes_key: None or Some(JSON text)
  outFile,   \* the file written by export_mode: None or Some(JSON text)
  lastOp,    \* the last call: its name and arguments
  out,       \* what the last call returned and reported
  pre,       \* the row as the last call loaded it
  pc,        \* "idle", or "save" while a call is between its load and its save
  local,     \* the composer_state a call holds between its load and its save
  host       \* the document the host application wrote between that load
             \* and the save, None when it wrote none

vars == <<table, outFile, lastOp, out, pre, pc, local, host>>

NoRow == None

\* the parsed document of a present row
DocOf(t) == Loads(t[1])

\* the stored mode list of a row, None when the row, composerState or
\* modes4 is absent
StoredModes(t) ==
  IF t = NoRow THEN None
  ELSE IF StateField \notin DOMAIN DocOf(t) THEN None
  ELSE IF ModesField \notin DOMAIN DocOf(t)[StateField] THEN None
  ELSE Some(DocOf(t)[StateField][ModesField])

\* ------------------------------------------------------ storage primitives
\* _get_composer_state: None when the key has no row, else the document's
\* composerState, {} when the document has none
GetComposerState(t) ==
  IF t = NoRow THEN None
  ELSE Some(DictGet(Loads(t[1]), StateField, EmptyDict))

\* `not composer_state`: None and the empty dict are both falsy
Falsy(r) == r = None \/ r[1] = EmptyDict

\* a save that writes a document holding composerState alone instead of
\* re-reading the row
SaveComposerState_Overwrite(t, composer_state) ==
  IF t = NoRow THEN [row |-> t, ok |-> FALSE]
  ELSE [row |-> Some(Dumps(DictSet(EmptyDict, StateField, composer_state))),
        ok |-> TRUE]

\* _save_composer_state: re-reads the row, replaces composerState, updates
\* the row; fails when the row is absent.  Returns the row and the result.
SaveComposerState(t, composer_state) ==
  IF t = NoRow THEN [row |-> t, ok |-> FALSE]
  ELSE [row |-> Some(Dumps(DictSet(Loads(t[1]), StateField, composer_state))),
        ok |-> TRUE]

\* -------------------------------------------------------------- test data
Contents == {"A", "B"}

\* a mode object with the given id (None: no id member), without the
\* fields in `missing`, every other member holding `v`
TemplateFields ==
  {"name", "icon", "thinkingLevel", "autoRun", "shouldAutoApplyIfNoEditTool",
   "enabledTools", "autoFix", "enabledMcpServers"}

MkMode(idOpt, missing, v) ==
  [k \in (IF idOpt = None THEN {} ELSE {"id"}) \cup (TemplateFields \ missing)
         \cup {OptionalField} |->
     IF k = "id" THEN idOpt[1] ELSE v]

InitModes ==
  { MkMode(Some("agent"), {}, "A"),
    MkMode(Some("c1"), {}, "A"),
    MkMode(Some("c1"), {}, "B"),
    MkMode(Some(""), {}, "A"),
    MkMode(Some("c2"), {"icon"}, "A"),
    MkMode(None, {}, "A") }

RECURSIVE SeqsUpTo(_, _)
SeqsUpTo(S, n) ==
  IF n = 0 THEN {<<>>}
  ELSE LET shorter == SeqsUpTo(S, n - 1)
       IN  shorter \cup {Append(s, x) : s \in {q \in shorter : Len(q) = n - 1}, x \in S}

InitStates ==
  { EmptyDict,
    [otherNested |-> 1],
    [modes4 |-> <<>>] }
  \cup { [otherNested |-> 1, modes4 |-> l] : l \in SeqsUpTo(InitModes, MaxInitLen) }

InitDocs ==
  { [otherTopLevel |-> 1] }
  \cup { [otherTopLevel |-> 1, composerState |-> cs] : cs \in InitStates }

InitTables == {NoRow} \cup {Some(Dumps(d)) : d \in InitDocs}

\* ids given on the command line or typed into the menu
ArgIds ==
  {"agent", "plan", "background", "chat", "spec", "debug", "c1", "c2", "", "u1"}

LookupIds == {"agent", "c1", "c2", "", "u1"}

NoOp == [kind |-> "none"]

Result(ok, msg, value, loads, saves) ==
  [ok |-> ok, msg |-> msg, value |-> value, loads |-> loads, saves |-> saves]

Init ==
  /\ table \in InitTables
  /\ outFile = None
  /\ lastOp = NoOp
  /\ out = Result(TRUE, "", None, 0, 0)
  /\ pre = table
  /\ pc = "idle"
  /\ local = None
  /\ host = None

\* ------------------------------------------------------------- list_modes
\* a listing that ignores show_builtin
ListResult_IgnoreFlag(t, show_builtin) ==
  LET composer_state == GetComposerState(t)
  IN  IF Falsy(composer_state) THEN <<>>
      ELSE DictGet(composer_state[1], ModesField, <<>>)

\* the modes list_modes returns
ListResult(t, show_builtin) ==
  LET composer_state == GetComposerState(t)
  IN  IF Falsy(composer_state) THEN <<>>
      ELSE SelectSeq(DictGet(composer_state[1], ModesField, <<>>),
                     LAMBDA m : show_builtin \/ DictGet(m, "id", "") \notin BuiltinIds)

ListModes(show_builtin) ==
  /\ lastOp' = [kind |-> "list", show_builtin |-> show_builtin]
  /\ out' = Result(TRUE, "", ListResult(table, show_builtin), 1, 0)
  /\ pre' = table
  /\ pc = "idle"
  /\ UNCHANGED <<table, outFile, pc, local, host>>

\* ------------------------------------------------------------ delete_mode
\* a removal of the first matching entry only (modes.remove)
WithoutId_FirstOnly(modes, mode_id) ==
  LET hits == {i \in 1..Len(modes) : IdIs(modes[i], mode_id)}
  IN  IF hits = {} THEN modes
      ELSE LET first == CHOOSE i \in hits : \A h \in hits : i <= h
           IN  SubSeq(modes, 1, first - 1) \o SubSeq(modes, first + 1, Len(modes))

\* [m for m in modes if m.get("id") != mode_id]
WithoutId(modes, mode_id) == SelectSeq(modes, LAMBDA m : ~IdIs(m, mode_id))

\* a delete that reports success when there is no composer_state to
\* delete from
DeletePrepare_NothingIsFine(t, mode_id) ==
  IF mode_id \in BuiltinIds
  THEN [done |-> TRUE, res |-> Result(FALSE, "builtin", None, 0, 0)]
  ELSE
    LET composer_state == GetComposerState(t)
    IN  IF Falsy(composer_state)
        THEN [done |-> TRUE, res |-> Result(TRUE, "", None, 1, 0)]
        ELSE
          LET modes == DictGet(composer_state[1], ModesField, <<>>)
              new_modes == WithoutId(modes, mode_id)
          IN  IF Len(new_modes) = Len(modes)
              THEN [done |-> TRUE, res |-> Result(FALSE, "notfound", None, 1, 0)]
              ELSE [done |-> FALSE,
                    composer_state |->
                      DictSet(composer_state[1], ModesField, new_modes),
                    value |-> None]

\* delete_mode up to its save: the refusal or failure it returns at once,
\* or the composer_state it is about to save
DeletePrepare(t, mode_id) ==
  IF mode_id \in BuiltinIds
  THEN [done |-> TRUE, res |-> Result(FALSE, "builtin", None, 0, 0)]
  ELSE
    LET composer_state == GetComposerState(t)
    IN  IF Falsy(composer_state)
        THEN [done |-> TRUE, res |-> Result(FALSE, "", None, 1, 0)]
        ELSE
          LET modes == DictGet(composer_state[1], ModesField, <<>>)
              new_modes == WithoutId(modes, mode_id)
          IN  IF Len(new_modes) = Len(modes)
              THEN [done |-> TRUE, res |-> Result(FALSE, "notfound", None, 1, 0)]
              ELSE [done |-> FALSE,
                    composer_state |->
                      DictSet(composer_state[1], ModesField, new_modes),
                    value |-> None]

\* the save that ends import_mode and delete_mode
Finish(t, prepared) ==
  IF prepared.done THEN [row |-> t, res |-> prepared.res]
  ELSE LET saved == SaveComposerState(t, prepared.composer_state)
       IN  [row |-> saved.row,
            res |-> Result(saved.ok, "", prepared.value, 1, 1)]

DeleteOutcome(t, mode_id) == Finish(t, DeletePrepare(t, mode_id))

DeleteMode(mode_id) ==
  /\ pc = "idle"
  /\ lastOp' = [kind |-> "delete", id |-> mode_id]
  /\ table' = DeleteOutcome(table, mode_id).row
  /\ out' = DeleteOutcome(table, mode_id).res
  /\ pre' = table
  /\ UNCHANGED <<outFile, pc, local, host>>

\* --------------------------------------------------------------- get_mode
\* index of the first mode whose id is mode_id, 0 when there is none
FirstIndex(modes, mode_id) ==
  IF \E i \in 1..Len(modes) : IdIs(modes[i], mode_id)
  THEN CHOOSE i \in 1..Len(modes) :
         IdIs(modes[i], mode_id) /\ \A j \in 1..(i - 1) : ~IdIs(modes[j], mode_id)
  ELSE 0

GetResult(t, mode_id) ==
  LET composer_state == GetComposerState(t)
  IN  IF Falsy(composer_state) THEN None
      ELSE LET modes == DictGet(composer_state[1], ModesField, <<>>)
               idx == FirstIndex(modes, mode_id)
           IN  IF idx = 0 THEN None ELSE Some(modes[idx])

GetMode(mode_id) ==
  /\ lastOp' = [kind |-> "get", id |-> mode_id]
  /\ out' = Result(GetResult(table, mode_id) /= None, "",
                   GetResult(table, mode_id), 1, 0)
  /\ pre' = table
  /\ pc = "idle"
  /\ UNCHANGED <<table, outFile, pc, local, host>>

\* ------------------------------------------------------------ export_mode
\* `not mode`: get_mode returns None or a mode that has an id member, so
\* the mode is never the empty dict
ExportMode(mode_id) ==
  LET mode == GetResult(table, mode_id)
  IN  /\ pc = "idle"
      /\ lastOp' = [kind |-> "export", id |-> mode_id]
      /\ pre' = table
      /\ IF mode = None
         THEN /\ out' = Result(FALSE, "notfound", None, 1, 0)
              /\ UNCHANGED outFile
         ELSE /\ out' = Result(TRUE, "", None, 1, 0)
              /\ outFile' = Some(Dumps(mode[1]))
      /\ UNCHANGED <<table, pc, local, host>>

\* ------------------------------------------------------------ import_mode
\* the id import_mode settles on: the override when it is a non-empty
\* string, else the file's id, else (no id or an empty one) a generated uuid
ResolveId(mode, mode_id, uuid) ==
  IF mode_id /= None /\ mode_id[1] /= "" THEN DictSet(mode, "id", mode_id[1])
  ELSE IF "id" \notin DOMAIN mode \/ mode["id"] = "" THEN DictSet(mode, "id", uuid)
  ELSE mode

\* the first required field the mode lacks, None when it has them all
MissingField(mode) ==
  IF \E i \in 1..Len(RequiredFields) : RequiredFields[i] \notin DOMAIN mode
  THEN Some(RequiredFields[
         CHOOSE i \in 1..Len(RequiredFields) :
           /\ RequiredFields[i] \notin DOMAIN mode
           /\ \A j \in 1..(i - 1) : RequiredFields[j] \in DOMAIN mode])
  ELSE None

\* an import that appends without looking for the id
Upsert_AlwaysAppend(modes, mode) == Append(modes, mode)

\* the list after the upsert: the first entry with the mode's id replaced,
\* or the mode appended
Upsert(modes, mode) ==
  LET existing_mode == FirstIndex(modes, mode["id"])
  IN  IF existing_mode /= 0
      THEN [modes EXCEPT ![existing_mode] = mode]
      ELSE Append(modes, mode)

\* import_mode up to its save; input is the text of the input file
\* (None: the file cannot be read)
ImportPrepare(t, input, mode_id, uuid) ==
  IF input = None
  THEN [done |-> TRUE, res |-> Result(FALSE, "io", None, 0, 0)]
  ELSE
    LET mode == ResolveId(Loads(input[1]), mode_id, uuid)
    IN  IF MissingField(mode) /= None
        THEN [done |-> TRUE,
              res |-> Result(FALSE, "missing", MissingField(mode), 0, 0)]
        ELSE
          LET composer_state == GetComposerState(t)
          IN  IF Falsy(composer_state)
              THEN [done |-> TRUE, res |-> Result(FALSE, "", None, 1, 0)]
              ELSE
                LET modes == DictGet(composer_state[1], ModesField, <<>>)
                IN  [done |-> FALSE,
                     composer_state |->
                       DictSet(composer_state[1], ModesField, Upsert(modes, mode)),
                     value |-> Some(mode)]

ImportOutcome(t, input, mode_id, uuid) ==
  Finish(t, ImportPrepare(t, input, mode_id, uuid))

\* files a user may hand to import, each with the --mode-id given with it:
\* complete modes, modes lacking one required field, a file that does not
\* exist
CompleteFiles ==
  { Some(Dumps(MkMode(None, {}, "B"))),
    Some(Dumps(MkMode(Some(""), {}, "B"))),
    Some(Dumps(MkMode(Some("c1"), {}, "A"))),
    Some(Dumps(MkMode(Some("c1"), {}, "B"))),
    Some(Dumps(MkMode(Some("agent"), {}, "B"))) }

OverrideIds == {None, Some(""), Some("c2")}

UserImports ==
  (CompleteFiles \X OverrideIds)
  \cup {<<Some(Dumps(MkMode(Some("c2"), {f}, "A"))), None>> : f \in RequiredSet}
  \cup {<<Some(Dumps(MkMode(None, {"enabledTools", "autoFix"}, "A"))), Some("c2")>>,
        <<None, None>>}

\* str(uuid.uuid4())
UuidPool == {"u1"}

\* the model stops imports that would grow the list beyond MaxModes
WithinBound(t, input, mode_id, uuid) ==
  LET after == StoredModes(ImportOutcome(t, input, mode_id, uuid).row)
  IN  after /= None /\ Len(after[1]) > MaxModes
        => StoredModes(t) /= None /\ Len(after[1]) = Len(StoredModes(t)[1])

ImportMode(source, input, mode_id, uuid) ==
  /\ pc = "idle"
  /\ WithinBound(table, input, mode_id, uuid)
  /\ lastOp' = [kind |-> "import", source |-> source, input |-> input,
                mode_id |-> mode_id, uuid |-> uuid]
  /\ table' = ImportOutcome(table, input, mode_id, uuid).row
  /\ out' = ImportOutcome(table, input, mode_id, uuid).res
  /\ pre' = table
  /\ UNCHANGED <<outFile, pc, local, host>>

ImportUserFile ==
  \E imp \in UserImports, uuid \in UuidPool :
    ImportMode("user", imp[1], imp[2], uuid)

ImportExportedFile ==
  \E mode_id \in OverrideIds, uuid \in UuidPool :
    ImportMode("exported", outFile, mode_id, uuid)

\* ---------------------------------------------------------- specifications
\* the calls that read and change the record
Next ==
  \/ \E b \in BOOLEAN : ListModes(b)
  \/ \E i \in LookupIds : GetMode(i)
  \/ ImportUserFile
  \/ \E i \in ArgIds : DeleteMode(i)

Spec == Init /\ [][Next]_vars

\* export, re-import of the exported file, and delete
NextFiles ==
  \/ \E i \in LookupIds : ExportMode(i)
  \/ ImportExportedFile
  \/ \E i \in LookupIds : DeleteMode(i)

SpecFiles == Init /\ [][NextFiles]_vars

\* every call, on a record that has no row or an empty composerState
InitEmpty ==
  /\ Init
  /\ Falsy(GetComposerState(table))

NextAll ==
  \/ \E b \in BOOLEAN : ListModes(b)
  \/ \E i \in ArgIds : GetMode(i)
  \/ \E i \in ArgIds : ExportMode(i)
  \/ ImportUserFile
  \/ ImportExportedFile
  \/ \E i \in ArgIds : DeleteMode(i)

SpecEmpty == InitEmpty /\ [][NextAll]_vars

\* ------------------------------------------- the host application as writer
\* import_mode and delete_mode in two steps, load and save, with the host
\* application updating the row at any moment
ExtImports ==
  { <<Some(Dumps(MkMode(Some("c1"), {}, "B"))), None>>,
    <<Some(Dumps(MkMode(None, {}, "B"))), None>>,
    <<Some(Dumps(MkMode(Some("c1"), {}, "A"))), Some("c2")>>,
    <<Some(Dumps(MkMode(Some("c2"), {"icon"}, "A"))), None>> }

HostDocs ==
  { [otherTopLevel |-> 2,
     composerState |->
       [otherNested |-> 2, modes4 |-> <<MkMode(Some("h1"), {}, "A")>>]],
    [otherTopLevel |-> 2,
     composerState |->
       [otherNested |-> 1,
        modes4 |-> <<MkMode(Some("agent"), {}, "A"), MkMode(Some("c1"), {}, "A")>>]],
    [otherTopLevel |-> 1,
     composerState |-> [otherNested |-> 2, modes4 |-> <<>>]] }

Begin(op, prepared) ==
  /\ pc = "idle"
  /\ lastOp' = op
  /\ pre' = table
  /\ host' = None
  /\ IF prepared.done
     THEN /\ out' = prepared.res
          /\ UNCHANGED <<pc, local>>
     ELSE /\ pc' = "save"
          /\ local' = Some(prepared)
          /\ UNCHANGED out
  /\ UNCHANGED <<table, outFile>>

BeginImport ==
  \E imp \in ExtImports, uuid \in UuidPool :
    /\ WithinBound(table, imp[1], imp[2], uuid)
    /\ Begin([kind |-> "import", source |-> "user", input |-> imp[1],
              mode_id |-> imp[2], uuid |-> uuid],
             ImportPrepare(table, imp[1], imp[2], uuid))

BeginDelete ==
  \E mode_id \in LookupIds :
    Begin([kind |-> "delete", id |-> mode_id], DeletePrepare(table, mode_id))

\* the _save_composer_state call that ends the operation
EndSave ==
  /\ pc = "save"
  /\ table' = Finish(table, local[1]).row
  /\ out' = Finish(table, local[1]).res
  /\ pc' = "idle"
  /\ UNCHANGED <<outFile, lastOp, pre, local, host>>

\* the host application rewrites the row it owns
HostWrite ==
  \E d \in HostDocs :
    /\ table /= NoRow
    /\ table' = Some(Dumps(d))
    /\ host' = IF pc = "save" THEN Some(d) ELSE None
    /\ UNCHANGED <<outFile, lastOp, out, pre, pc, local>>

NextExt ==
  \/ BeginImport
  \/ BeginDelete
  \/ EndSave
  \/ HostWrite

SpecExt == Init /\ [][NextExt]_vars
\* ------------------------------------------------------------- properties
\* C1: delete_mode of one of the six built-in ids reports failure without
\* loading or saving and leaves the row as it was; and no delete_mode call
\* removes a built-in id that was in the mode list.
C1_BuiltinDeleteRefused ==
  lastOp.kind = "delete" =>
    /\ lastOp.id \in {"agent", "plan", "background", "chat", "spec", "debug"} =>
         /\ ~out.ok
         /\ out.msg = "builtin"
         /\ out.loads = 0 /\ out.saves = 0
         /\ table = pre
    /\ \A b \in {"agent", "plan", "background", "chat", "spec", "debug"} :
         (/\ StoredModes(pre) /= None
          /\ \E i \in 1..Len(StoredModes(pre)[1]) : IdIs(StoredModes(pre)[1][i], b))
         => /\ StoredModes(table) /= None
            /\ \E i \in 1..Len(StoredModes(table)[1]) :
                 IdIs(StoredModes(table)[1][i], b)

C1_Witness ==
  /\ lastOp.kind = "delete" /\ lastOp.id = "agent"
  /\ ~out.ok
  /\ StoredModes(pre) /= None
  /\ \E i \in 1..Len(StoredModes(pre)[1]) : IdIs(StoredModes(pre)[1][i], "agent")

\* C2: on every existing row, importing a valid mode succeeds and replaces
\* the first entry with the mode's id in place, or else appends the mode; a
\* document without a mode list ends with the list [m].
C2_ImportUpserts ==
  (/\ lastOp.kind = "import"
   /\ pre /= NoRow
   /\ lastOp.input /= None
   /\ {"id", "name", "icon", "thinkingLevel", "autoRun",
       "shouldAutoApplyIfNoEditTool", "enabledTools", "autoFix",
       "enabledMcpServers"}
        \subseteq DOMAIN ResolveId(Loads(lastOp.input[1]), lastOp.mode_id, lastOp.uuid))
  => LET m == ResolveId(Loads(lastOp.input[1]), lastOp.mode_id, lastOp.uuid)
         old == IF StoredModes(pre) = None THEN <<>> ELSE StoredModes(pre)[1]
         hits == {i \in 1..Len(old) : IdIs(old[i], m["id"])}
     IN  /\ out.ok
         /\ StoredModes(table) /= None
         /\ LET new == StoredModes(table)[1]
            IN  IF hits /= {}
                THEN /\ Len(new) = Len(old)
                     /\ \A i \in 1..Len(old) :
                          new[i] = IF i \in hits /\ \A h \in hits : i <= h
                                   THEN m ELSE old[i]
                ELSE new = Append(old, m)

\* C3: an import whose file lacks one of the required fields fails before
\* the document is loaded (no load, no save, row unchanged), the id being
\* resolved first; a successful import stores a mode with all nine fields.
C3_ValidationBeforeLoad ==
  (lastOp.kind = "import" /\ lastOp.input /= None) =>
    /\ (\E f \in {"name", "icon", "thinkingLevel", "autoRun",
                  "shouldAutoApplyIfNoEditTool", "enabledTools", "autoFix",
                  "enabledMcpServers"} : f \notin DOMAIN Loads(lastOp.input[1]))
       => /\ ~out.ok
          /\ out.msg = "missing"
          /\ out.loads = 0 /\ out.saves = 0
          /\ table = pre
    /\ out.ok
       => /\ {"id", "name", "icon", "thinkingLevel", "autoRun",
              "shouldAutoApplyIfNoEditTool", "enabledTools", "autoFix",
              "enabledMcpServers"} \subseteq DOMAIN out.value[1]
          /\ \E i \in 1..Len(StoredModes(table)[1]) :
               StoredModes(table)[1][i] = out.value[1]

C3_Witness ==
  /\ lastOp.kind = "import"
  /\ out.msg = "missing" /\ out.value = Some("enabledTools")
  /\ lastOp.mode_id /= None
  /\ StoredModes(pre) /= None /\ Len(StoredModes(pre)[1]) > 0

\* C4: delete_mode of a non-built-in id on a stored mode list: with no entry
\* of that id it reports not-found and leaves the row unchanged; otherwise it
\* succeeds and the list becomes the old list without the entries of that
\* id, the others in order.  A second delete of the same id directly after a
\* successful one reports not-found and leaves the row unchanged.
C4_DeleteFilters ==
  /\ [](lastOp.kind = "delete"
        /\ lastOp.id \notin {"agent", "plan", "background", "chat", "spec", "debug"}
        /\ StoredModes(pre) /= None
        => LET old == StoredModes(pre)[1]
               keep == {i \in 1..Len(old) :
                          ~("id" \in DOMAIN old[i] /\ old[i]["id"] = lastOp.id)}
           IN  IF keep = 1..Len(old)
               THEN ~out.ok /\ out.msg = "notfound" /\ table = pre
               ELSE /\ out.ok
                    /\ StoredModes(table) /= None
                    /\ LET new == StoredModes(table)[1]
                       IN  /\ Len(new) = Cardinality(keep)
                           /\ \A i \in keep :
                                new[Cardinality({j \in keep : j <= i})] = old[i])
  /\ [][(/\ lastOp.kind = "delete" /\ out.ok
         /\ lastOp'.kind = "delete" /\ lastOp'.id = lastOp.id)
        => (~out'.ok /\ out'.msg = "notfound" /\ table' = table)]_vars

C4_Witness ==
  /\ lastOp.kind = "delete" /\ out.ok
  /\ StoredModes(pre) /= None /\ Len(StoredModes(pre)[1]) = 2
  /\ Len(StoredModes(table)[1]) = 1
  /\ StoredModes(table)[1][1] = StoredModes(pre)[1][1]

\* C5: a successful import or delete leaves every top-level field of the
\* document other than composerState, and every field of composerState
\* other than modes4, with the value it had before.
C5_OnlyModeListChanges ==
  (lastOp.kind \in {"import", "delete"} /\ out.ok) =>
    LET before == DocOf(pre)
        after == DocOf(table)
    IN  /\ DOMAIN after \ {StateField} = DOMAIN before \ {StateField}
        /\ \A k \in DOMAIN before \ {StateField} : after[k] = before[k]
        /\ StateField \in DOMAIN before /\ StateField \in DOMAIN after
        /\ DOMAIN after[StateField] \ {ModesField}
             = DOMAIN before[StateField] \ {ModesField}
        /\ \A k \in DOMAIN before[StateField] \ {ModesField} :
             after[StateField][k] = before[StateField][k]

C5_Witness ==
  /\ lastOp.kind = "import" /\ out.ok
  /\ table /= pre
  /\ TopField \in DOMAIN DocOf(pre)
  /\ SiblingField \in DOMAIN DocOf(pre)[StateField]
  /\ DocOf(table)[TopField] = 1
  /\ DocOf(table)[StateField][SiblingField] = 1

\* C6: list_modes(True) returns the stored modes in stored order,
\* list_modes(False) the sub-sequence whose id is not a built-in id, and the
\* row is never changed by it.
C6_ListFilters ==
  lastOp.kind = "list" =>
    /\ table = pre
    /\ StoredModes(pre) /= None =>
         LET stored == StoredModes(pre)[1]
             keep == {i \in 1..Len(stored) :
                        lastOp.show_builtin
                        \/ ~(/\ "id" \in DOMAIN stored[i]
                             /\ stored[i]["id"] \in
                                  {"agent", "plan", "background", "chat", "spec", "debug"})}
         IN  /\ Len(out.value) = Cardinality(keep)
             /\ \A i \in keep :
                  out.value[Cardinality({j \in keep : j <= i})] = stored[i]

C6_Witness ==
  /\ lastOp.kind = "list" /\ ~lastOp.show_builtin
  /\ StoredModes(pre) /= None /\ Len(StoredModes(pre)[1]) = 2
  /\ Len(out.value) = 1
  /\ out.value[1] = StoredModes(pre)[1][2]

\* C7 as stated: for any stored mode, export followed by import of the
\* exported file with no override id succeeds and the store then holds,
\* under the resolved id, a mode equal field for field to the original.
C7_RoundTripAnyMode ==
  [][(/\ lastOp.kind = "export" /\ out.ok
      /\ lastOp'.kind = "import" /\ lastOp'.source = "exported"
      /\ lastOp'.mode_id = None)
     => LET orig == GetResult(table, lastOp.id)[1]
            resolved == IF orig["id"] = "" THEN lastOp'.uuid ELSE orig["id"]
        IN  /\ out'.ok
            /\ StoredModes(table') /= None
            /\ \E i \in 1..Len(StoredModes(table')[1]) :
                 LET e == StoredModes(table')[1][i]
                 IN  /\ DOMAIN e = DOMAIN orig
                     /\ e["id"] = resolved
                     /\ \A k \in DOMAIN orig \ {"id"} : e[k] = orig[k]
                     /\ \A j \in 1..(i - 1) :
                          ~IdIs(StoredModes(table')[1][j], resolved)]_vars

\* C7 amended: the same for any stored mode that has the eight required
\* fields besides its id; the id is kept unless it was empty, and then a
\* generated id takes its place.
C7_RoundTripCompleteMode ==
  [][(/\ lastOp.kind = "export" /\ out.ok
      /\ lastOp'.kind = "import" /\ lastOp'.source = "exported"
      /\ lastOp'.mode_id = None
      /\ {"name", "icon", "thinkingLevel", "autoRun",
          "shouldAutoApplyIfNoEditTool", "enabledTools", "autoFix",
          "enabledMcpServers"} \subseteq DOMAIN GetResult(table, lastOp.id)[1])
     => LET orig == GetResult(table, lastOp.id)[1]
            resolved == IF orig["id"] = "" THEN lastOp'.uuid ELSE orig["id"]
        IN  /\ out'.ok
            /\ StoredModes(table') /= None
            /\ \E i \in 1..Len(StoredModes(table')[1]) :
                 LET e == StoredModes(table')[1][i]
                 IN  /\ DOMAIN e = DOMAIN orig
                     /\ e["id"] = resolved
                     /\ \A k \in DOMAIN orig \ {"id"} : e[k] = orig[k]
                     /\ \A j \in 1..(i - 1) :
                          ~IdIs(StoredModes(table')[1][j], resolved)]_vars

C7_Witness ==
  /\ lastOp.kind = "import" /\ lastOp.source = "exported" /\ lastOp.mode_id = None
  /\ out.ok
  /\ outFile /= None
  /\ OptionalField \in DOMAIN out.value[1]
  /\ \E i \in 1..Len(StoredModes(pre)[1]) :
       /\ StoredModes(pre)[1][i] = out.value[1]
       /\ StoredModes(table)[1][i] = out.value[1]

\* C8: with the key absent from the table, list_modes returns no modes,
\* get_mode returns None, export_mode reports not-found and writes no file,
\* import_mode and delete_mode report failure, and the key stays absent.
C8_AbsentKey ==
  pre = NoRow =>
    /\ table = NoRow
    /\ lastOp.kind = "list" => out.value = <<>>
    /\ lastOp.kind = "get" => out.value = None
    /\ lastOp.kind = "export" => ~out.ok /\ out.msg = "notfound" /\ outFile = None
    /\ lastOp.kind \in {"import", "delete"} => ~out.ok

C8_Witness ==
  /\ pre = NoRow
  /\ lastOp.kind = "delete"
  /\ out.loads = 1
  /\ ~out.ok

\* C9: an import or delete, successful or not, that starts from a mode list
\* with pairwise distinct ids leaves a mode list with pairwise distinct ids.
C9_IdsStayUnique ==
  LET ids(l) == [i \in 1..Len(l) |->
                   IF "id" \in DOMAIN l[i] THEN Some(l[i]["id"]) ELSE None]
      distinct(l) == \A i, j \in 1..Len(l) : i /= j => ids(l)[i] /= ids(l)[j]
      listOf(t) == IF StoredModes(t) = None THEN <<>> ELSE StoredModes(t)[1]
  IN  (lastOp.kind \in {"import", "delete"} /\ distinct(listOf(pre)))
        => distinct(listOf(table))

C9_Witness ==
  /\ lastOp.kind = "import" /\ out.ok
  /\ StoredModes(pre) /= None /\ Len(StoredModes(pre)[1]) = 1
  /\ Len(StoredModes(table)[1]) = 2
  /\ StoredModes(table)[1][1]["id"] /= StoredModes(table)[1][2]["id"]

\* C10: when the host application rewrote the row between the load and the
\* save of an import or delete, the save succeeds and stores the
\* composerState computed from the load (the host's mode list and its
\* sibling fields are lost), while the other top-level fields are the ones
\* the host wrote.
C10_LastWriterWins ==
  (/\ pc = "idle"
   /\ lastOp.kind \in {"import", "delete"}
   /\ out.saves = 1
   /\ host /= None)
  => LET loaded == DocOf(pre)[StateField]
         after == DocOf(table)
     IN  /\ out.ok
         /\ DOMAIN after = DOMAIN host[1] \cup {StateField}
         /\ \A k \in DOMAIN host[1] \ {StateField} : after[k] = host[1][k]
         /\ DOMAIN after[StateField] = DOMAIN loaded \cup {ModesField}
         /\ \A k \in DOMAIN loaded \ {ModesField} : after[StateField][k] = loaded[k]
         /\ after[StateField][ModesField] =
              IF lastOp.kind = "import"
              THEN Upsert(DictGet(loaded, ModesField, <<>>), out.value[1])
              ELSE WithoutId(DictGet(loaded, ModesField, <<>>), lastOp.id)

C10_Witness ==
  /\ pc = "idle" /\ lastOp.kind = "import" /\ out.saves = 1 /\ out.ok
  /\ host /= None
  /\ host[1][TopField] = 2 /\ DocOf(pre)[TopField] = 1
  /\ DocOf(table)[TopField] = 2
  /\ host[1][StateField][SiblingField] = 2
  /\ SiblingField \in DOMAIN DocOf(pre)[StateField]
  /\ DocOf(table)[StateField][SiblingField] = 1
  /\ StoredModes(pre) /= None
  /\ host[1][StateField][ModesField] /= StoredModes(pre)[1]
  /\ StoredModes(table)[1] = Upsert(StoredModes(pre)[1], out.value[1])
====
